---- MODULE Spec2Model ----
(***************************************************************************)
(* The project library page: the filter bar (ProjectFiltersBar), its theme *)
(* buttons (FilterButtons), the project card, and the filter state store   *)
(* the bar reads and writes.                                               *)
(*                                                                         *)
(* A text is a sequence of one-character strings; a query string is a      *)
(* sequence of [key, values] parameters.  The store (useProjectFiltersState*)
(* with filterProjects and the query string encoding), queryStringToObject *)
(* and the catalog follow sections 3, 4.1, 6 and 7 of the specification;   *)
(* the store lives as long as the page does.  A step is one handler with   *)
(* the render it causes and the effects of that render.  Time is counted   *)
(* in steps of TickMs, and a due timer fires before more time passes.      *)
(***************************************************************************)
EXTENDS Integers, Sequences, FiniteSets, TLC

\* ------------------------------------------------------------------ bounds
MaxLen == 1           \* longest text typed in the search box
TicksPerDelay == 2    \* clock steps the debounce delay is divided into

\* --------------------------------------------------------------- constants
DebounceMs == 500
TickMs == DebounceMs \div TicksPerDelay
NoTimer == 0 - 1

Min(a, b) == IF a < b THEN a ELSE b
Max(a, b) == IF a > b THEN a ELSE b
Range(s) == {s[i] : i \in DOMAIN s}

\* ------------------------------------------------------------ text helpers
Keys == {"k", "P"}
UpperToLower == [K |-> "k", Z |-> "z", P |-> "p", G |-> "g"]

toLowerCase(s) ==
  [i \in DOMAIN s |-> IF s[i] \in DOMAIN UpperToLower THEN UpperToLower[s[i]] ELSE s[i]]

includes(hay, needle) ==
  \E i \in 0..(Len(hay) - Len(needle)) : SubSeq(hay, i + 1, i + Len(needle)) = needle

\* ------------------------------------------------- catalog and filter sets
Catalog ==
  << [id |-> 1, name |-> <<"Z", "K">>, tldr |-> <<"k", "i", "t">>,
      tags |-> [themes |-> {"build"}, status |-> {"active"}]],
     [id |-> 2, name |-> <<"P", "f">>, tldr |-> <<"z", "k", "p">>,
      tags |-> [themes |-> {"research"}, status |-> {"active"}]],
     [id |-> 3, name |-> <<"G", "o">>, tldr |-> <<"a", "p", "p">>,
      tags |-> [themes |-> {"play", "build"}, status |-> {"archived"}]] >>

ThemesButtonMapping == <<"build", "play", "research">>
ThemesStatusMapping == <<"active", "archived">>

CategoryOrder == <<"themes", "status">>
Categories == Range(CategoryOrder)
filters == [themes |-> ThemesButtonMapping, status |-> ThemesStatusMapping]
FilterTypeMapping == [themes |-> "button", status |-> "checkbox"]

EmptyQS == << >>
EmptyFilters == [c \in {} |-> {}]

\* activeFilters?.[key] ?? []
Selected(af, c) == IF c \in DOMAIN af THEN af[c] ELSE {}

\* ------------------------------------------------- the filter state store
matchesFilters(p, af) ==
  \A c \in DOMAIN af :
    af[c] = {} \/ (c \in DOMAIN p.tags /\ p.tags[c] \cap af[c] # {})

matchesSearch(p, searchPattern) ==
  \/ searchPattern = << >>
  \/ includes(toLowerCase(p.name), toLowerCase(searchPattern))
  \/ includes(toLowerCase(p.tldr), toLowerCase(searchPattern))

filterProjects(searchPattern, af) ==
  SelectSeq(Catalog, LAMBDA p : matchesFilters(p, af) /\ matchesSearch(p, searchPattern))

createURLQueryString(af) ==
  LET present == SelectSeq(CategoryOrder, LAMBDA c : Selected(af, c) # {})
  IN  [i \in DOMAIN present |->
        [key |-> present[i],
         values |-> SelectSeq(filters[present[i]],
                              LAMBDA v : v \in Selected(af, present[i]))]]

\* variant: every parameter is taken over, known or not
queryStringToObjectRaw(params) ==
  LET keys == {params[i].key : i \in DOMAIN params}
  IN  [c \in keys |->
        UNION {Range(params[i].values) : i \in {j \in DOMAIN params : params[j].key = c}}]

queryStringToObject(params) ==
  LET known(c) == UNION {Range(params[i].values) \cap Range(filters[c]) :
                           i \in {j \in DOMAIN params : params[j].key = c}}
      present == {c \in Categories : known(c) # {}}
  IN  [c \in present |-> known(c)]

\* variant: a toggle only ever selects
toggleFilterAddOnly(st, tag, value, sq) ==
  IF tag \notin Categories \/ value \notin Range(filters[tag])
  THEN st
  ELSE LET af == [c \in DOMAIN st.activeFilters \cup {tag} |->
                    IF c = tag THEN Selected(st.activeFilters, tag) \cup {value}
                    ELSE st.activeFilters[c]]
       IN  [activeFilters |-> af,
            queryString   |-> createURLQueryString(af),
            projects      |-> filterProjects(sq, af)]

toggleFilter(st, tag, value, sq) ==
  IF tag \notin Categories \/ value \notin Range(filters[tag])
  THEN st
  ELSE LET old == Selected(st.activeFilters, tag)
           new == IF value \in old THEN old \ {value} ELSE old \cup {value}
           sel(c) == IF c = tag THEN new ELSE st.activeFilters[c]
           af  == [c \in {k \in DOMAIN st.activeFilters \cup {tag} : sel(k) # {}} |->
                     sel(c)]
       IN  [activeFilters |-> af,
            queryString   |-> createURLQueryString(af),
            projects      |-> filterProjects(sq, af)]

onSelectTheme(st, theme, sq) == toggleFilter(st, "themes", theme, sq)

onFilterProject(st, searchPattern) ==
  [st EXCEPT !.projects = filterProjects(searchPattern, st.activeFilters)]

\* ------------------------------------------------------------------ state
VARIABLES
  activeFilters, queryString, projects,      \* the store
  mounted, searchQuery, filterCount, timer,   \* ProjectFiltersBar
  url,                                       \* the query of the page's URL
  obs                                        \* observations for the properties

vars == <<activeFilters, queryString, projects, mounted, searchQuery,
          filterCount, timer, url, obs>>

store == [activeFilters |-> activeFilters, queryString |-> queryString,
          projects |-> projects]

\* URLs a visitor can arrive with
UrlChoices ==
  { EmptyQS,
    << [key |-> "themes", values |-> <<"build">>] >>,
    << [key |-> "themes", values |-> <<"research", "bogus">>],
       [key |-> "status", values |-> <<"active">>] >>,
    << [key |-> "sort", values |-> <<"asc">>],
       [key |-> "status", values |-> <<"archived">>] >> }

NoKey == <<"", "">>

\* lastOp: the visitor's last interaction; tog*: the run of toggles of one
\* value; sinceKey .. lastTyped: the search box and its timer; hydrat*: runs
\* of the hydration effect since the mount
ObsInit ==
  [lastOp |-> "init",
   togRun |-> 0, togKey |-> NoKey, togSnap |-> EmptyFilters,
   sinceKey |-> 0, fires |-> 0, firedArg |-> << >>, firedAt |-> 0, lastTyped |-> << >>,
   rearmedByClear |-> FALSE,
   hydrated |-> FALSE, rehydrated |-> FALSE, hydratedLate |-> FALSE]

Init ==
  /\ activeFilters = EmptyFilters
  /\ queryString = EmptyQS
  /\ projects = Catalog
  /\ mounted = FALSE
  /\ searchQuery = << >>
  /\ filterCount = 0
  /\ timer = NoTimer
  /\ url = EmptyQS
  /\ obs = ObsInit

\* ------------------------------------------------ effects run after render
\* useEffect(..., [queryString, router])
UrlEffect(isMount, prevQs, qs, curUrl) ==
  IF (isMount \/ qs # prevQs) /\ qs # EmptyQS THEN qs ELSE curUrl

\* variant: the hydration effect without a dependency list
HydrateEffectEveryRender(isMount) == TRUE

\* useEffect(..., []) : the dependency list of the hydration effect
HydrateEffectDue(isMount) == isMount

\* variant: the count effect counts the categories, not their values
CountEffectKeys(due, af, curCount) ==
  IF due THEN Cardinality(DOMAIN af) ELSE curCount

\* useEffect(..., [activeFilters])
CountEffect(due, af, curCount) ==
  IF due
  THEN LET keys == DOMAIN af
           Sum[S \in SUBSET keys] ==
             IF S = {} THEN 0
             ELSE LET c == CHOOSE x \in S : TRUE
                  IN  Cardinality(af[c]) + Sum[S \ {c}]
       IN  Sum[keys]
  ELSE curCount

\* variant: the debounce with an empty dependency list
DebounceEffectNoDeps(isMount, prevSq, sq, curTimer) ==
  IF isMount THEN DebounceMs ELSE curTimer

\* variant: the debounce skips the first render
DebounceEffectSkipFirst(isMount, prevSq, sq, curTimer) ==
  IF ~isMount /\ sq # prevSq THEN DebounceMs ELSE curTimer

\* useDebounce(fn, 500, [searchQuery])
DebounceEffect(isMount, prevSq, sq, curTimer) ==
  IF isMount \/ sq # prevSq THEN DebounceMs ELSE curTimer

\* h: the state the handler leaves; sp: the search params of the render;
\* o: the observations the handler leaves
Commit(h, isMount, sp, o) ==
  LET hyd == HydrateEffectDue(isMount)
      af  == IF hyd THEN queryStringToObject(sp) ELSE h.activeFilters
  IN  /\ activeFilters' = af
      /\ queryString' = h.queryString
      /\ projects' = h.projects
      /\ mounted' = TRUE
      /\ searchQuery' = h.searchQuery
      /\ filterCount' = CountEffect(isMount \/ hyd \/ h.afNew, af, h.filterCount)
      /\ timer' = DebounceEffect(isMount, searchQuery, h.searchQuery, h.timer)
      /\ url' = UrlEffect(isMount, queryString, h.queryString, h.url)
      /\ obs' = [o EXCEPT !.hydrated = @ \/ hyd,
                          !.rehydrated = @ \/ (hyd /\ o.hydrated),
                          !.hydratedLate = @ \/ (hyd /\ o.lastOp \notin {"init", "mount"})]

Current ==
  [activeFilters |-> activeFilters, queryString |-> queryString, projects |-> projects,
   searchQuery |-> searchQuery, filterCount |-> filterCount,
   timer |-> timer, url |-> url, afNew |-> FALSE]

WithStore(h, st) ==
  [h EXCEPT !.activeFilters = st.activeFilters, !.queryString = st.queryString,
            !.projects = st.projects, !.afNew = TRUE]

\* --------------------------------------------------------------- handlers
\* the page is opened at /projects?u : first render of ProjectFiltersBar
Mount(u) ==
  /\ ~mounted
  /\ Commit([Current EXCEPT !.url = u], TRUE, u,
            [ObsInit EXCEPT !.lastOp = "mount"])

\* <FilterButtons /> : the bar passes no searchQuery prop
FilterButtonsProps(sq) == [hasSearchQuery |-> FALSE, searchQuery |-> << >>]

\* FilterButtons: searchQuery ?? ""
FilterButtonsSearchQuery ==
  LET props == FilterButtonsProps(searchQuery)
  IN  IF props.hasSearchQuery THEN props.searchQuery ELSE << >>

\* FilterButtons, Button onClick
FilterButtonClick(key) ==
  /\ mounted
  /\ key \in Range(ThemesButtonMapping)
  /\ LET sq == FilterButtonsSearchQuery
     IN  Commit(WithStore(Current, onSelectTheme(store, key, sq)), FALSE, url,
                [obs EXCEPT !.lastOp = "theme", !.rearmedByClear = FALSE,
                            !.togRun = 0, !.togKey = NoKey, !.togSnap = EmptyFilters])

ToggleObs(tag, value) ==
  LET again == obs.lastOp = "toggle" /\ obs.togRun = 1 /\ obs.togKey = <<tag, value>>
  IN  [obs EXCEPT !.lastOp = "toggle", !.rearmedByClear = FALSE,
                  !.togRun = IF again THEN 2 ELSE 1,
                  !.togKey = <<tag, value>>,
                  !.togSnap = IF again THEN @ ELSE activeFilters]

hasActiveThemeFilters == Selected(activeFilters, "themes") # {}

\* variant: the checkbox passes no search text to toggleFilter
CheckboxClickNoSearch(key, item) ==
  /\ mounted
  /\ key \in Categories
  /\ ~(key = "themes" /\ ~hasActiveThemeFilters)
  /\ Len(filters[key]) > 0
  /\ item \in Range(filters[key])
  /\ FilterTypeMapping[key] = "checkbox"
  /\ Commit(WithStore(Current, toggleFilter(store, key, item, << >>)), FALSE, url,
            ToggleObs(key, item))

\* Modal, Checkbox onClick (the modal's showModal only shows or hides the
\* controls and is left out)
CheckboxClick(key, item) ==
  /\ mounted
  /\ key \in Categories
  /\ ~(key = "themes" /\ ~hasActiveThemeFilters)
  /\ Len(filters[key]) > 0
  /\ item \in Range(filters[key])
  /\ FilterTypeMapping[key] = "checkbox"
  /\ Commit(WithStore(Current, toggleFilter(store, key, item, searchQuery)), FALSE, url,
            ToggleObs(key, item))

\* Modal, CategoryTag onClose
CategoryTagClose(key, item) ==
  /\ mounted
  /\ key \in Categories
  /\ ~(key = "themes" /\ ~hasActiveThemeFilters)
  /\ item \in Range(filters[key])
  /\ FilterTypeMapping[key] = "button"
  /\ item \in Selected(activeFilters, key)
  /\ Commit(WithStore(Current, toggleFilter(store, "themes", item, searchQuery)),
            FALSE, url, ToggleObs("themes", item))

hasActiveFilters == filterCount > 0 \/ Len(searchQuery) > 0

\* variant: "clear all" leaves the text of the search box
clearAllFiltersKeepInput ==
  /\ mounted
  /\ hasActiveFilters
  /\ Commit([WithStore(Current, [activeFilters |-> EmptyFilters, queryString |-> EmptyQS,
                                 projects |-> Catalog])
               EXCEPT !.url = EmptyQS],
            FALSE, url,
            [obs EXCEPT !.lastOp = "clear", !.rearmedByClear = FALSE,
                        !.togRun = 0, !.togKey = NoKey, !.togSnap = EmptyFilters])

clearAllFilters ==
  /\ mounted
  /\ hasActiveFilters
  /\ Commit([WithStore(Current, [activeFilters |-> EmptyFilters, queryString |-> EmptyQS,
                                 projects |-> Catalog])
               EXCEPT !.searchQuery = << >>, !.url = EmptyQS],
            FALSE, url,
            [obs EXCEPT !.lastOp = "clear", !.rearmedByClear = searchQuery # << >>,
                        !.togRun = 0, !.togKey = NoKey, !.togSnap = EmptyFilters,
                        !.lastTyped = << >>,
                        !.sinceKey = IF searchQuery # << >> THEN 0 ELSE @,
                        !.fires = IF searchQuery # << >> THEN 0 ELSE @])

\* Input onChange
InputChange(value) ==
  /\ mounted
  /\ value # searchQuery
  /\ Len(value) <= MaxLen
  /\ Commit([Current EXCEPT !.searchQuery = value], FALSE, url,
            [obs EXCEPT !.lastOp = "type", !.rearmedByClear = FALSE,
                        !.togRun = 0, !.togKey = NoKey, !.togSnap = EmptyFilters,
                        !.lastTyped = value, !.sinceKey = 0, !.fires = 0])

\* one keystroke: a character more, or the last one deleted
Typed(sq) ==
  {Append(sq, ch) : ch \in Keys} \cup
  (IF sq = << >> THEN {} ELSE {SubSeq(sq, 1, Len(sq) - 1)})

\* time passes while the debounce timer is pending
Tick ==
  /\ mounted
  /\ timer > 0
  /\ timer' = Max(0, timer - TickMs)
  /\ obs' = [obs EXCEPT !.sinceKey = Min(DebounceMs, @ + TickMs)]
  /\ UNCHANGED <<activeFilters, queryString, projects, mounted, searchQuery,
                 filterCount, url>>

\* the debounce timer fires
DebounceFire ==
  /\ mounted
  /\ timer = 0
  /\ LET st == onFilterProject(store, searchQuery)
     IN  Commit([Current EXCEPT !.projects = st.projects, !.timer = NoTimer],
                FALSE, url,
                [obs EXCEPT !.fires = Min(2, @ + 1), !.firedArg = searchQuery,
                            !.firedAt = obs.sinceKey])

\* ProjectCard onClick: router.push(`/projects/${id}`) leaves the page; the
\* bar is unmounted and the store, which lives as long as the page, goes
CardClick(i) ==
  /\ mounted
  /\ i \in DOMAIN projects
  /\ activeFilters' = EmptyFilters
  /\ queryString' = EmptyQS
  /\ projects' = Catalog
  /\ mounted' = FALSE
  /\ searchQuery' = << >>
  /\ filterCount' = 0
  /\ timer' = NoTimer
  /\ url' = EmptyQS
  /\ obs' = ObsInit

Next ==
  \/ \E u \in UrlChoices : Mount(u)
  \/ \E key \in Range(ThemesButtonMapping) : FilterButtonClick(key)
  \/ \E key \in Categories : \E item \in Range(filters[key]) : CheckboxClick(key, item)
  \/ \E key \in Categories : \E item \in Range(filters[key]) : CategoryTagClose(key, item)
  \/ clearAllFilters
  \/ \E value \in Typed(searchQuery) : InputChange(value)
  \/ Tick
  \/ DebounceFire
  \/ \E i \in DOMAIN projects : CardClick(i)

Spec == Init /\ [][Next]_vars

\* time passes and a due timer fires
LiveSpec == Spec /\ WF_vars(Tick) /\ WF_vars(DebounceFire)

\* ------------------------------------------------------------- properties
\* the steps the properties speak of (the first conjuncts only spare work)
ToggleStep ==
  /\ obs'.lastOp = "toggle" /\ activeFilters' # activeFilters
  /\ \E key \in Categories : \E item \in Range(filters[key]) :
       CheckboxClick(key, item) \/ CategoryTagClose(key, item)

ThemeStep ==
  /\ obs'.lastOp = "theme" /\ activeFilters' # activeFilters
  /\ \E key \in Range(ThemesButtonMapping) : FilterButtonClick(key)

TypeStep ==
  /\ searchQuery' # searchQuery /\ mounted'
  /\ \E value \in Typed(searchQuery) : InputChange(value)

MountStep ==
  /\ ~mounted
  /\ \E u \in UrlChoices : Mount(u)

FireStep ==
  /\ timer = 0 /\ mounted'
  /\ DebounceFire

Fold(ch) == IF ch \in DOMAIN UpperToLower THEN UpperToLower[ch] ELSE ch

\* s occurs in t, letter case ignored
IsSubstringCI(s, t) ==
  \E i \in 1..(Len(t) - Len(s) + 1) :
    \A j \in 1..Len(s) : Fold(t[i + j - 1]) = Fold(s[j])

ProjectMatches(P, F, s) ==
  /\ \A c \in Categories :
       Selected(F, c) # {} => P.tags[c] \cap Selected(F, c) # {}
  /\ s = << >> \/ IsSubstringCI(s, P.name) \/ IsSubstringCI(s, P.tldr)

CatalogIndex(P) == CHOOSE i \in DOMAIN Catalog : Catalog[i] = P

\* R holds exactly the catalog projects matching F and s, in catalog order
IsFilteredResult(F, s, R) ==
  /\ \A j \in DOMAIN R : R[j] \in Range(Catalog)
  /\ \A i \in DOMAIN Catalog :
       ProjectMatches(Catalog[i], F, s) <=> Catalog[i] \in Range(R)
  /\ \A j, k \in DOMAIN R : j < k => CatalogIndex(R[j]) < CatalogIndex(R[k])

NoSelection(F) == \A c \in Categories : Selected(F, c) = {}

SelectedTotal(F) ==
  LET f[i \in 0..Len(CategoryOrder)] ==
        IF i = 0 THEN 0 ELSE f[i - 1] + Cardinality(Selected(F, CategoryOrder[i]))
  IN  f[Len(CategoryOrder)]

\* C1: after toggleFilter, onSelectTheme or onFilterProject is applied with
\* the resulting selection state F and the search text s the handler passes
\* (the search box's text for a toggle and for the debounced search, the text
\* FilterButtons passes for a theme click), the filtered result is exactly
\* the catalog projects that match every non-empty category of F (OR within,
\* AND across) and contain s, letter case ignored, in name or summary, in
\* catalog order.
C1_FilteredResult ==
  [][ /\ ToggleStep => IsFilteredResult(activeFilters', searchQuery, projects')
      /\ ThemeStep => IsFilteredResult(activeFilters', FilterButtonsSearchQuery, projects')
      /\ FireStep => IsFilteredResult(activeFilters', searchQuery, projects')
    ]_vars

C1_Witness ==
  /\ mounted /\ obs.lastOp = "toggle"
  /\ searchQuery # << >>
  /\ ~NoSelection(activeFilters)
  /\ Len(projects) = 1

\* C2: the search is trailing-edge debounced: the box shows every keystroke
\* at once; while the timer is pending nothing has been applied since the
\* last keystroke and the timer is due 500ms after it; once it is no longer
\* pending onFilterProject has run exactly once since the last keystroke,
\* 500ms after it, with the text the box shows.
C2_TrailingDebounce ==
  mounted =>
    /\ searchQuery = obs.lastTyped
    /\ timer # NoTimer => obs.fires = 0 /\ timer = DebounceMs - obs.sinceKey
    /\ timer = NoTimer =>
         obs.fires = 1 /\ obs.firedArg = searchQuery /\ obs.firedAt = DebounceMs

C2_Witness ==
  /\ mounted /\ obs.lastOp = "type"
  /\ searchQuery # << >>
  /\ timer = NoTimer /\ obs.fires = 1 /\ obs.firedArg = searchQuery

\* C3: whenever a filter mutation changes the store's query string, the
\* URL's query is the new query string once the effects have run, also when
\* the last selected value is toggled off and the query string becomes empty.
C3_UrlFollowsQueryString ==
  [][mounted' /\ queryString' # queryString => url' = queryString']_vars

\* C4: with a search text applied, a theme button click leaves no project
\* in the filtered result that fails to match the text in the search box.
C4_ThemeClickKeepsSearch ==
  mounted /\ obs.lastOp = "theme" /\ timer = NoTimer /\ searchQuery # << >> =>
    \A j \in DOMAIN projects :
      IsSubstringCI(searchQuery, projects[j].name) \/
      IsSubstringCI(searchQuery, projects[j].tldr)

\* C5: after "clear all", and for as long as the visitor does nothing else
\* (so also after the debounce timer has fired), no value is selected, the
\* filtered result is the full catalog, the query string is empty, the
\* search box is empty and the URL is bare /projects.
C5_ClearAll ==
  mounted /\ obs.lastOp = "clear" =>
    /\ NoSelection(activeFilters)
    /\ projects = Catalog
    /\ queryString = EmptyQS
    /\ searchQuery = << >>
    /\ url = EmptyQS

C5_Witness ==
  /\ mounted /\ obs.lastOp = "clear"
  /\ obs.rearmedByClear
  /\ timer = NoTimer /\ obs.fires = 1

\* C6: the hydration effect runs exactly once per mount, before any
\* interaction of the visitor, and on no later render.
C6_HydrateOnce ==
  mounted => obs.hydrated /\ ~obs.rehydrated /\ ~obs.hydratedLate

C6_Witness ==
  /\ mounted /\ obs.lastOp = "toggle"
  /\ obs.hydrated
  /\ queryStringToObject(url) # activeFilters

\* C7: every key of the active filters is a known category and every
\* selected value is a value declared for its category, also after
\* hydrating from a URL with unknown keys or values.
C7_SelectionsValid ==
  /\ DOMAIN activeFilters \subseteq Categories
  /\ \A c \in DOMAIN activeFilters : activeFilters[c] \subseteq Range(filters[c])

C7_Witness ==
  /\ mounted /\ obs.lastOp = "mount"
  /\ \E i \in DOMAIN url : url[i].key \notin Categories
  /\ ~NoSelection(activeFilters)

\* C8: once the effects have run the displayed filter count is the number
\* of selected values over all categories, and neither typing in the search
\* box nor the debounce firing changes it.
C8_FilterCount ==
  /\ [](mounted => filterCount = SelectedTotal(activeFilters))
  /\ [][TypeStep \/ FireStep => filterCount' = filterCount]_vars

C8_Witness ==
  /\ mounted
  /\ filterCount = 3
  /\ Cardinality(Selected(activeFilters, "themes")) = 2
  /\ searchQuery # << >> /\ timer = NoTimer

\* C9: toggling the same value of the same category twice in succession
\* returns the selection state to what it was before the first toggle.
C9_ToggleTwice ==
  obs.lastOp = "toggle" /\ obs.togRun = 2 =>
    \A c \in Categories : Selected(activeFilters, c) = Selected(obs.togSnap, c)

C9_Witness ==
  /\ obs.lastOp = "toggle" /\ obs.togRun = 2
  /\ obs.togKey = <<"status", "archived">>
  /\ Selected(activeFilters, "status") = {"active"}

\* C10: hydration replaces the active filters only, leaving the filtered
\* result and the query string as they were; and if the visitor does
\* nothing after the mount, the timer armed at the mount fires with the
\* empty search text and the filtered result becomes the catalog projects
\* matching the hydrated selections.
C10_HydratedResultConverges ==
  /\ [][MountStep => /\ projects' = projects
                     /\ queryString' = queryString
                     /\ activeFilters' = queryStringToObject(url')]_vars
  /\ (mounted /\ obs.lastOp = "mount") ~>
       \/ obs.lastOp # "mount"
       \/ /\ obs.fires = 1 /\ obs.firedArg = << >>
          /\ IsFilteredResult(activeFilters, << >>, projects)

C10_Witness ==
  /\ mounted /\ obs.lastOp = "mount"
  /\ ~NoSelection(activeFilters)
  /\ obs.fires = 1
  /\ projects # Catalog

====
